---- MODULE Spec2Model ----
(***************************************************************************)
(* Model of two components of the repository:                              *)
(*   - PGAgent   (src/tensorforce/rl_agents/pg_agent.py): the episode /     *)
(*     batch accumulator driven by get_action and add_observation;          *)
(*   - Gaussian  (src/tensorforce/core/distributions/gaussian.py): the      *)
(*     constructor's shape validation and parametrize.                      *)
(***************************************************************************)
EXTENDS Integers, Sequences, FiniteSets, TLC

VARIABLES
    \* ---- PGAgent fields (pg_agent.py:36-47)
    batch_size,            \* self.batch_size
    continuous,            \* self.continuous
    current_batch,         \* self.current_batch: list of paths
    current_episode,       \* self.current_episode: defaultdict(list)
    batch_steps,           \* self.batch_steps
    last_action,           \* self.last_action
    last_action_means,     \* self.last_action_means
    last_action_log_stds,  \* self.last_action_log_stds
    \* ---- PGAgent observation of calls
    last_call,             \* name of the most recent call on the agent
    ret,                   \* value returned by the most recent call
    raised,                \* exception that ended the most recent call, or "none"
    updater_result,        \* what updater.get_action returned most recently
    fed,                   \* arguments of every add_observation call so far
    updates,               \* every batch handed to updater.update so far
    \* ---- Gaussian
    action_spec,           \* self.action_spec: [type, shape]
    input_spec,            \* self.input_spec: [shape]
    gaussian,              \* outcome of Gaussian.__init__
    head_out,              \* outputs of the mean / log_stddev linear heads
    parameters,            \* TensorDict returned by parametrize, or None
    gaussian_call          \* the most recent sample / kl_divergence call, or None

agent_vars == <<batch_size, continuous, current_batch, current_episode, batch_steps,
                last_action, last_action_means, last_action_log_stds,
                last_call, ret, raised, updater_result, fed, updates>>
gaussian_vars == <<action_spec, input_spec, gaussian, head_out, parameters,
                   gaussian_call>>
vars == <<agent_vars, gaussian_vars>>

(***************************************************************************)
(* Bounds of the model.                                                    *)
(***************************************************************************)
MaxBatch == 3          \* batch_size ranges over 1..MaxBatch
MaxObs == 5            \* add_observation calls per run
MaxInputRank == 4      \* rank of input_spec.shape in the constructor check
MaxActionRank == 3     \* rank of action_spec.shape in the constructor check
MaxRaw == 8            \* |raw head output| <= MaxRaw, in units of ln(10)
MaxMean == 2           \* |mean| of the parameters handed to sample / kl_divergence
MaxTemperature == 2    \* temperature ranges over 0..MaxTemperature
MaxNoise == 2          \* |tf.random.normal draw| <= MaxNoise
MaxSquareDigits == 8   \* kl_divergence: stddev^2 within 10^-MaxSquareDigits..10^MaxSquareDigits

\* Python's None.  Every other value it is compared with is a sequence or a
\* record, none of them empty.
None == <<>>

Last(s) == s[Len(s)]

(***************************************************************************)
(* PGAgent                                                                 *)
(***************************************************************************)

\* Values of the collaborators' data.  The agent never inspects a state or a
\* reward, it only stores them, so the n-th add_observation call is fed values
\* that identify the call: a lost, duplicated or reordered step shows.  An
\* action is a vector with one component per discrete choice; the means and
\* log-stddevs come with a leading batch axis of length 1.
StateOf(n) == 100 + n
RewardOf(n) == 200 + n
\* What updater.get_action returns: (action, outputs).
UpdaterResults ==
    {[action |-> <<0, 1>>, outputs |-> [action_means |-> <<30>>, action_log_stds |-> <<40>>]],
     [action |-> <<1, 0>>, outputs |-> [action_means |-> <<31>>, action_log_stds |-> <<41>>]]}
\* The `action` argument of add_observation: whatever the caller passes.
ActionArgs == {<<0, 1>>, <<1, 0>>, <<0>>, <<1>>}

\* np.argmax: the first index (from 0) of a maximal component.
argmax(v) ==
    CHOOSE i \in 0..(Len(v) - 1) :
        /\ \A j \in 0..(Len(v) - 1) : v[j + 1] <= v[i + 1]
        /\ \A j \in 0..(i - 1) : v[j + 1] < v[i + 1]

\* defaultdict(list): a mapping whose missing keys read as the empty list.
EmptyEpisode == [k \in {} |-> <<>>]
Get(d, k) == IF k \in DOMAIN d THEN d[k] ELSE <<>>
Set(d, k, v) == [x \in (DOMAIN d) \cup {k} |-> IF x = k THEN v ELSE d[x]]
ListAppend(d, k, v) == Set(d, k, Append(Get(d, k), v))

\* np.expand_dims(a, 0): a new leading axis of length 1.
expand_dims(a) == <<a>>
\* np.concatenate(arrays): joins the arrays along their first axis.  numpy
\* raises ValueError on an empty list of arrays.
RECURSIVE concatenate(_)
concatenate(arrays) ==
    IF arrays = <<>> THEN <<>> ELSE Head(arrays) \o concatenate(Tail(arrays))
CanConcatenate(arrays) == Len(arrays) > 0
\* np.array(list)
array(list) == list

\* Mutant: the log-stddevs are read from the means.
get_path_means_twice(episode) ==
    [states          |-> concatenate(expand_dims(Get(episode, "states"))),
     actions         |-> array(Get(episode, "actions")),
     terminated      |-> Get(episode, "terminated"),
     action_means    |-> concatenate(Get(episode, "action_means")),
     action_log_stds |-> concatenate(Get(episode, "action_means")),
     rewards         |-> array(Get(episode, "rewards"))]

\* get_path (pg_agent.py:114-127)
get_path(episode) ==
    [states          |-> concatenate(expand_dims(Get(episode, "states"))),
     actions         |-> array(Get(episode, "actions")),
     terminated      |-> Get(episode, "terminated"),
     action_means    |-> concatenate(Get(episode, "action_means")),
     action_log_stds |-> concatenate(Get(episode, "action_log_stds")),
     rewards         |-> array(Get(episode, "rewards"))]
\* get_path raises when np.concatenate is handed an empty list.
GetPathRaises(episode) ==
    \/ ~CanConcatenate(Get(episode, "action_means"))
    \/ ~CanConcatenate(Get(episode, "action_log_stds"))

AgentInit ==
    /\ batch_size \in 1..MaxBatch
    /\ continuous \in BOOLEAN
    /\ current_batch = <<>>
    /\ current_episode = EmptyEpisode
    /\ batch_steps = 0
    /\ last_action = None
    /\ last_action_means = None
    /\ last_action_log_stds = None
    /\ last_call = "__init__"
    /\ ret = None
    /\ raised = "none"
    /\ updater_result = None
    /\ fed = <<>>
    /\ updates = <<>>

\* Mutant: the test of the flag inverted.
ReturnedAction_inverted(action, is_continuous) ==
    IF is_continuous
    THEN [type |-> "int", value |-> argmax(action)]
    ELSE [type |-> "ndarray", value |-> action]

\* pg_agent.py:67-70.  A Python value carries its type: the index np.argmax
\* returns is an integer, the raw action an array.
ReturnedAction(action, is_continuous) ==
    IF ~is_continuous
    THEN [type |-> "int", value |-> argmax(action)]
    ELSE [type |-> "ndarray", value |-> action]

\* pg_agent.py:63-65: the values get_action caches
CachedAction(action, outputs) ==
    [last_action          |-> action,
     last_action_means    |-> outputs["action_means"],
     last_action_log_stds |-> outputs["action_log_stds"]]

\* Mutant: get_action also starts a new episode buffer.
get_action_resetting(action, outputs) ==
    LET cached == CachedAction(action, outputs) IN
    /\ last_action_means' = cached.last_action_means
    /\ last_action_log_stds' = cached.last_action_log_stds
    /\ last_action' = cached.last_action
    /\ ret' = ReturnedAction(action, continuous)
    /\ last_call' = "get_action"
    /\ raised' = "none"
    /\ current_episode' = EmptyEpisode
    /\ UNCHANGED <<batch_size, continuous, current_batch,
                   batch_steps, fed, updates>>

\* get_action (pg_agent.py:52-70); (action, outputs) is what
\* updater.get_action returns.
get_action(action, outputs) ==
    LET cached == CachedAction(action, outputs) IN
    /\ last_action_means' = cached.last_action_means
    /\ last_action_log_stds' = cached.last_action_log_stds
    /\ last_action' = cached.last_action
    /\ ret' = ReturnedAction(action, continuous)
    /\ last_call' = "get_action"
    /\ raised' = "none"
    /\ UNCHANGED <<batch_size, continuous, current_batch, current_episode,
                   batch_steps, fed, updates>>

GetAction ==
    /\ \E r \in UpdaterResults :
           /\ updater_result' = r
           /\ get_action(r.action, r.outputs)
    /\ UNCHANGED gaussian_vars

\* Mutant: the reward is not recorded.
AppendStep_no_reward(episode, state, action, reward) ==
    LET e1 == ListAppend(episode, "states", state)
        e2 == ListAppend(e1, "actions", last_action)
        e4 == ListAppend(e2, "action_means", last_action_means)
    IN  ListAppend(e4, "action_log_stds", last_action_log_stds)

\* Mutant: the call's `action` argument is recorded, not the cached action.
AppendStep_argument(episode, state, action, reward) ==
    LET e1 == ListAppend(episode, "states", state)
        e2 == ListAppend(e1, "actions", action)
        e3 == ListAppend(e2, "rewards", reward)
        e4 == ListAppend(e3, "action_means", last_action_means)
    IN  ListAppend(e4, "action_log_stds", last_action_log_stds)

\* pg_agent.py:89-93: the step appended to the episode buffer
AppendStep(episode, state, action, reward) ==
    LET e1 == ListAppend(episode, "states", state)
        e2 == ListAppend(e1, "actions", last_action)
        e3 == ListAppend(e2, "rewards", reward)
        e4 == ListAppend(e3, "action_means", last_action_means)
    IN  ListAppend(e4, "action_log_stds", last_action_log_stds)

\* Mutant: the threshold is compared with > .
ThresholdReached_gt(steps, size) == steps > size
\* pg_agent.py:104
ThresholdReached(steps, size) == steps = size

\* Mutants: the threshold branch finalizes whatever the step was / never.
ForceFinalize_always(terminal) == TRUE
ForceFinalize_never(terminal) == FALSE
\* pg_agent.py:105
ForceFinalize(terminal) == ~terminal

\* add_observation (pg_agent.py:72-112), block by block; an exception out of
\* get_path leaves the state of the block that raised.
add_observation(state, action, reward, terminal) ==
    LET steps1 == batch_steps + 1
        ep1 == AppendStep(current_episode, state, action, reward)
        \* 95-102
        ep2 == IF terminal THEN Set(ep1, "terminated", TRUE) ELSE ep1
        raise2 == terminal /\ GetPathRaises(ep2)
        batch2 == IF terminal /\ ~raise2
                  THEN Append(current_batch, get_path(ep2)) ELSE current_batch
        ep3 == IF terminal /\ ~raise2 THEN EmptyEpisode ELSE ep2
        \* 104-112
        flush == ~raise2 /\ ThresholdReached(steps1, batch_size)
        force == flush /\ ForceFinalize(terminal)
        ep4 == IF force THEN Set(ep3, "terminated", FALSE) ELSE ep3
        raise4 == force /\ GetPathRaises(ep4)
        batch4 == IF force /\ ~raise4 THEN Append(batch2, get_path(ep4)) ELSE batch2
        update == flush /\ ~raise4
    IN  /\ updates' = IF update THEN Append(updates, batch4) ELSE updates
        /\ current_episode' = IF update THEN EmptyEpisode ELSE ep4
        /\ current_batch' = IF update THEN <<>> ELSE batch4
        /\ batch_steps' = IF update THEN 0 ELSE steps1
        /\ raised' = IF raise2 \/ raise4 THEN "ValueError" ELSE "none"
        /\ ret' = None
        /\ last_call' = "add_observation"
        /\ fed' = Append(fed, [state |-> state, reward |-> reward, terminal |-> terminal,
                               last_action |-> last_action,
                               last_action_means |-> last_action_means,
                               last_action_log_stds |-> last_action_log_stds])
        /\ UNCHANGED <<batch_size, continuous, last_action, last_action_means,
                       last_action_log_stds, updater_result>>

\* The environment loop calls get_action before the first add_observation
\* (np.concatenate cannot join the None of a never-set cache).
AddObservation ==
    /\ Len(fed) < MaxObs
    /\ last_action # None
    /\ \E action \in ActionArgs, terminal \in BOOLEAN :
           add_observation(StateOf(Len(fed) + 1), action, RewardOf(Len(fed) + 1), terminal)
    /\ UNCHANGED gaussian_vars

GaussianIdle ==
    /\ action_spec = None
    /\ input_spec = None
    /\ gaussian = None
    /\ head_out = None
    /\ parameters = None
    /\ gaussian_call = None

Init == AgentInit /\ GaussianIdle
Next == GetAction \/ AddObservation
Spec == Init /\ [][Next]_vars
\* The run is unbounded: the environment loop keeps calling get_action and
\* add_observation (up to MaxObs observations).
\* AddObservation's fairness is WF_vars(AddObservation) with ENABLED written
\* out: the action's guard, every add_observation call changing fed.
CanAddObservation == Len(fed) < MaxObs /\ last_action # None
FairSpec ==
    /\ Spec
    /\ WF_vars(GetAction)
    /\ ([]<>~CanAddObservation \/ []<><<AddObservation>>_vars)

\* The agent's variables while only a Gaussian is exercised.
AgentUnused ==
    /\ batch_size = None
    /\ continuous = None
    /\ current_batch = None
    /\ current_episode = None
    /\ batch_steps = None
    /\ last_action = None
    /\ last_action_means = None
    /\ last_action_log_stds = None
    /\ last_call = None
    /\ ret = None
    /\ raised = None
    /\ updater_result = None
    /\ fed = None
    /\ updates = None

(***************************************************************************)
(* Gaussian                                                                *)
(***************************************************************************)

\* Shapes are tuples of positive integers.
Dims == {3, 4, 5}
Shapes(dims, min_rank, max_rank) == UNION {[1..r -> dims] : r \in min_rank..max_rank}
ActionTypes == {"float", "int"}
ModuleName == "gaussian"

\* Python's shape[:-1].
AllButLast(shape) == SubSeq(shape, 1, Len(shape) - 1)

\* util.product(xs, empty): the product of xs, `empty` when xs is empty.
RECURSIVE product_of(_)
product_of(xs) == IF xs = <<>> THEN 1 ELSE Head(xs) * product_of(Tail(xs))
product(xs, empty) == IF xs = <<>> THEN empty ELSE product_of(xs)

\* self.embedding_shape, an attribute of the Distribution base class: the
\* shape of the embedding the distribution is built on.
embedding_shape(i_spec) == i_spec.shape

\* TensorforceError.value(name, argument, value, hint)
TensorforceError_value(name, argument, value, hint) ==
    [status |-> "TensorforceError", name |-> name, argument |-> argument,
     value |-> value, hint |-> hint]
Constructed(size) == [status |-> "ok", size |-> size]

\* Mutant: no upper limit on the rank.
InvalidRank_no_upper(shape) == Len(shape) < 1
\* gaussian.py:64
InvalidRank(shape) == Len(shape) < 1 \/ Len(shape) > 3

\* Mutant: the leading dimensions are compared by their number only.
LeadingDimsMatch_rank_only(i_shape, a_shape) ==
    Len(AllButLast(i_shape)) = Len(AllButLast(a_shape))
\* gaussian.py:69
LeadingDimsMatch(i_shape, a_shape) == AllButLast(i_shape) = AllButLast(a_shape)
\* gaussian.py:71
FullShapeMatch(i_shape, a_shape) == AllButLast(i_shape) = a_shape

\* Gaussian.__init__ (gaussian.py:35-85): the instance, or the exception.
Gaussian__init__(name, a_spec, i_spec) ==
    IF a_spec.type # "float" THEN [status |-> "AssertionError"]
    ELSE IF Len(i_spec.shape) = 1
    THEN Constructed(product(a_spec.shape, 0))
    ELSE IF InvalidRank(i_spec.shape)
    THEN TensorforceError_value(name, "input_spec.shape", embedding_shape(i_spec),
                                "invalid rank")
    ELSE IF LeadingDimsMatch(i_spec.shape, a_spec.shape)
    THEN IF a_spec.shape = <<>> THEN [status |-> "IndexError"]
         ELSE Constructed(Last(a_spec.shape))
    ELSE IF FullShapeMatch(i_spec.shape, a_spec.shape)
    THEN Constructed(0)
    ELSE TensorforceError_value(name, "input_spec.shape", i_spec.shape,
                                "not flattened and incompatible with action shape")

Construct ==
    /\ gaussian = None
    /\ gaussian' = Gaussian__init__(ModuleName, action_spec, input_spec)
    /\ UNCHANGED <<action_spec, input_spec, head_out, parameters, gaussian_call>>
    /\ UNCHANGED agent_vars

GaussianInit ==
    /\ AgentUnused
    /\ action_spec \in [type : ActionTypes, shape : Shapes(Dims, 0, MaxActionRank)]
    /\ input_spec \in [shape : Shapes(Dims, 0, MaxInputRank)]
    /\ gaussian = None
    /\ head_out = None
    /\ parameters = None
    /\ gaussian_call = None

SpecGaussian == GaussianInit /\ [][Construct]_vars

\* ---- parametrize

\* Numbers.  A logarithm is a whole number of units of ln(10), so that
\* util.epsilon = 10^-EpsilonDigits has the logarithm -EpsilonDigits; the
\* exponential of k units is the rational 10^k.
EpsilonDigits == 6
log_epsilon == -EpsilonDigits
RECURSIVE TenTo(_)
TenTo(k) == IF k = 0 THEN 1 ELSE 10 * TenTo(k - 1)
exp(x) == IF x >= 0 THEN [num |-> TenTo(x), den |-> 1] ELSE [num |-> 1, den |-> TenTo(-x)]

\* A tensor: its shape and its elements in row-major order.
Tensor(shape, data) == [shape |-> shape, data |-> data]
\* tf.reshape(tensor, (-1,) + shape): the leading axis takes what is left.
reshape(t, shape) ==
    Tensor(<<Len(t.data) \div product(shape, 1)>> \o shape, t.data)

Min(a, b) == IF a <= b THEN a ELSE b
Max(a, b) == IF a >= b THEN a ELSE b
\* tf.clip_by_value(t, clip_value_min, clip_value_max)
clip_by_value(t, clip_value_min, clip_value_max) ==
    Tensor(t.shape, [i \in 1..Len(t.data) |->
                        Min(Max(t.data[i], clip_value_min), clip_value_max)])

\* Mutant: the standard deviation is taken from the unclipped log_stddev.
\* (Stddev is tf.exp applied to one element.)
Stddev_unclipped(raw_log_stddev, log_stddev) == exp(raw_log_stddev)
\* gaussian.py:116
Stddev(raw_log_stddev, log_stddev) == exp(log_stddev)

\* parametrize (gaussian.py:95-118); mean_out and log_stddev_out are what
\* self.mean.apply(x) and self.log_stddev.apply(x) return.
parametrize(mean_out, log_stddev_out) ==
    LET flat == Len(input_spec.shape) = 1
        mean == IF flat THEN reshape(mean_out, action_spec.shape) ELSE mean_out
        raw == IF flat THEN reshape(log_stddev_out, action_spec.shape) ELSE log_stddev_out
        log_stddev == clip_by_value(raw, log_epsilon, -log_epsilon)
        stddev == Tensor(log_stddev.shape,
                         [i \in 1..Len(log_stddev.data) |->
                             Stddev(raw.data[i], log_stddev.data[i])])
    IN  [mean |-> mean, stddev |-> stddev, log_stddev |-> log_stddev]

\* The linear heads: one output per action component for each batch entry (a
\* batch of one here); a head of size 0 has no trailing axis.
HeadShape ==
    <<1>> \o AllButLast(input_spec.shape)
          \o (IF gaussian.size = 0 THEN <<>> ELSE <<gaussian.size>>)
HeadValues == (-MaxRaw)..MaxRaw
MeanValues == {-MaxRaw, 0, MaxRaw}

\* parametrize keeps no state from one call to the next: a run makes one call.
Parametrize ==
    /\ gaussian # None
    /\ gaussian.status = "ok"
    /\ parameters = None
    /\ \E mean_data \in [1..product(action_spec.shape, 1) -> MeanValues],
          log_stddev_data \in [1..product(action_spec.shape, 1) -> HeadValues] :
           /\ head_out' = [mean |-> Tensor(HeadShape, mean_data),
                           log_stddev |-> Tensor(HeadShape, log_stddev_data)]
           /\ parameters' = parametrize(head_out'.mean, head_out'.log_stddev)
    /\ UNCHANGED <<action_spec, input_spec, gaussian, gaussian_call>>
    /\ UNCHANGED agent_vars

ParamDims == {1, 2}
ParametrizeInit ==
    /\ AgentUnused
    /\ action_spec \in [type : ActionTypes, shape : Shapes(ParamDims, 0, 1)]
    /\ input_spec \in [shape : Shapes(ParamDims, 1, 2)]
    /\ gaussian = None
    /\ head_out = None
    /\ parameters = None
    /\ gaussian_call = None

SpecParametrize == ParametrizeInit /\ [][Construct \/ Parametrize]_vars

\* ---- sample

\* Arithmetic of the float tensors' elements: exact rationals num / den in
\* lowest terms, den > 0.
RECURSIVE GCD(_, _)
GCD(a, b) == IF b = 0 THEN a ELSE GCD(b, a % b)
Abs(a) == IF a < 0 THEN -a ELSE a
Rational(num, den) ==
    LET g == GCD(Abs(num), Abs(den))
        sign == IF den < 0 THEN -1 ELSE 1
    IN  [num |-> sign * (num \div g), den |-> sign * (den \div g)]
FromInt(n) == [num |-> n, den |-> 1]
Add(x, y) ==
    LET g == GCD(x.den, y.den)
    IN  Rational(x.num * (y.den \div g) + y.num * (x.den \div g), (x.den \div g) * y.den)
Neg(x) == [num |-> -x.num, den |-> x.den]
Sub(x, y) == Add(x, Neg(y))
Mul(x, y) ==
    LET g1 == GCD(Abs(x.num), y.den)
        g2 == GCD(Abs(y.num), x.den)
    IN  Rational((x.num \div g1) * (y.num \div g2), (x.den \div g2) * (y.den \div g1))
Div(x, y) == Mul(x, Rational(y.den, y.num))
\* x <= y: by the integer parts, then by the fractional parts (the products
\* stay within the integer width)
LessEq(x, y) ==
    LET g == GCD(x.den, y.den)
        fx == x.num \div x.den
        fy == y.num \div y.den
    IN  IF fx # fy THEN fx < fy
        ELSE (x.num % x.den) * (y.den \div g) <= (y.num % y.den) * (x.den \div g)
\* tf.maximum, tf.minimum, tf.square on one element
maximum(x, y) == IF LessEq(x, y) THEN y ELSE x
minimum(x, y) == IF LessEq(x, y) THEN x ELSE y
square(x) == Mul(x, x)

\* Mutant: the temperature does not scale the noise.
NoisyAction_no_temperature(mean, stddev, temperature, normal) ==
    Add(mean, Mul(stddev, normal))
\* gaussian.py:133, on one element
NoisyAction(mean, stddev, temperature, normal) ==
    Add(mean, Mul(Mul(stddev, temperature), normal))

\* Mutant: tf.minimum on the lower bound too.
ClipToBounds_minimum_twice(a_spec, action) ==
    LET a1 == IF a_spec.min_value # None THEN minimum(a_spec.min_value, action) ELSE action
    IN  IF a_spec.max_value # None THEN minimum(a_spec.max_value, a1) ELSE a1
\* gaussian.py:135-139, on one element
ClipToBounds(a_spec, action) ==
    LET a1 == IF a_spec.min_value # None THEN maximum(a_spec.min_value, action) ELSE action
    IN  IF a_spec.max_value # None THEN minimum(a_spec.max_value, a1) ELSE a1

\* sample (gaussian.py:120-141); normal_distribution is what tf.random.normal
\* draws, a tensor of the mean's shape.  The summaries of lines 124-128 leave
\* the result alone.
sample(params, temperature, normal_distribution) ==
    Tensor(params.mean.shape,
           [i \in 1..Len(params.mean.data) |->
               ClipToBounds(action_spec,
                            NoisyAction(FromInt(params.mean.data[i]), params.stddev.data[i],
                                        FromInt(temperature),
                                        FromInt(normal_distribution.data[i])))])

\* A valid parameter set of one element: the stddev is exp of a log_stddev in
\* the clamp range.
ParameterSets(log_stddevs) ==
    {[mean       |-> Tensor(<<1, 1>>, <<m>>),
      stddev     |-> Tensor(<<1, 1>>, <<exp(k)>>),
      log_stddev |-> Tensor(<<1, 1>>, <<k>>)] :
        m \in (-MaxMean)..MaxMean, k \in log_stddevs}
ClampRange == log_epsilon..(-log_epsilon)

Sample ==
    /\ gaussian # None
    /\ gaussian.status = "ok"
    /\ gaussian_call = None
    /\ \E params \in ParameterSets(ClampRange), temperature \in 0..MaxTemperature,
          noise \in (-MaxNoise)..MaxNoise :
           LET normal_distribution == Tensor(params.mean.shape, <<noise>>) IN
           gaussian_call' = [method |-> "sample", parameters |-> params,
                             temperature |-> temperature,
                             normal_distribution |-> normal_distribution,
                             result |-> sample(params, temperature, normal_distribution)]
    /\ UNCHANGED <<action_spec, input_spec, gaussian, head_out, parameters>>
    /\ UNCHANGED agent_vars

\* The declared bounds of the action: each None or a number, min <= max.
BoundValues == {None, FromInt(-1), FromInt(1)}
SampleInit ==
    /\ AgentUnused
    /\ \E min_value \in BoundValues, max_value \in BoundValues :
           /\ (min_value # None /\ max_value # None) => LessEq(min_value, max_value)
           /\ action_spec = [type |-> "float", shape |-> <<1>>,
                             min_value |-> min_value, max_value |-> max_value]
    /\ input_spec = [shape |-> <<3>>]
    /\ gaussian = None
    /\ head_out = None
    /\ parameters = None
    /\ gaussian_call = None

SpecSample == SampleInit /\ [][Construct \/ Sample]_vars

\* ---- kl_divergence

\* A sum of a logarithm, in units of ln(10), and a rational.  ln(10) is
\* irrational: the sum is 0 only when both parts are.
LogPlus(log_units, x) == [ln10 |-> log_units, rational |-> x]

\* gaussian.py:179
SqStddev1(stddev1, epsilon) == square(stddev1)
\* gaussian.py:180
SqStddev2(stddev2, epsilon) == maximum(square(stddev2), epsilon)

\* kl_divergence (gaussian.py:169-182), element by element
kl_divergence(parameters1, parameters2) ==
    LET half == Rational(1, 2)
        epsilon == exp(log_epsilon)
    IN  Tensor(parameters1.mean.shape,
           [i \in 1..Len(parameters1.mean.data) |->
               LET mean1 == FromInt(parameters1.mean.data[i])
                   mean2 == FromInt(parameters2.mean.data[i])
                   log_stddev_ratio ==
                       parameters2.log_stddev.data[i] - parameters1.log_stddev.data[i]
                   sq_mean_distance == square(Sub(mean1, mean2))
                   sq_stddev1 == SqStddev1(parameters1.stddev.data[i], epsilon)
                   sq_stddev2 == SqStddev2(parameters2.stddev.data[i], epsilon)
               IN  LogPlus(log_stddev_ratio,
                           Sub(Div(Mul(half, Add(sq_stddev1, sq_mean_distance)), sq_stddev2),
                               half))])

\* The log_stddevs whose stddev^2 the arithmetic holds; parameters2 is taken
\* within a factor 10 of parameters1's stddev, which keeps the quotient of
\* line 182 within it too.
KLRange == {k \in ClampRange : 2 * Abs(k) <= MaxSquareDigits}
KlDivergence ==
    /\ gaussian # None
    /\ gaussian.status = "ok"
    /\ gaussian_call = None
    /\ \E parameters1 \in ParameterSets(KLRange), parameters2 \in ParameterSets(KLRange) :
           /\ Abs(parameters1.log_stddev.data[1] - parameters2.log_stddev.data[1]) <= 1
           /\ gaussian_call' = [method |-> "kl_divergence", parameters1 |-> parameters1,
                                parameters2 |-> parameters2,
                                result |-> kl_divergence(parameters1, parameters2)]
    /\ UNCHANGED <<action_spec, input_spec, gaussian, head_out, parameters>>
    /\ UNCHANGED agent_vars

SpecKL == SampleInit /\ [][Construct \/ KlDivergence]_vars

(***************************************************************************)
(* Reading the buffers: the steps a path or the episode buffer holds.       *)
(***************************************************************************)
Step(state, action, reward, mean, log_std) ==
    [state |-> state, action |-> action, reward |-> reward,
     action_mean |-> mean, action_log_std |-> log_std]

PathLen(path) == Len(path.states)
\* Row i of each array of a path.
PathSteps(path) ==
    [i \in 1..PathLen(path) |->
        Step(path.states[i], path.actions[i], path.rewards[i],
             <<path.action_means[i]>>, <<path.action_log_stds[i]>>)]
WellFormedPath(path) ==
    /\ Len(path.actions) = PathLen(path)
    /\ Len(path.rewards) = PathLen(path)
    /\ Len(path.action_means) = PathLen(path)
    /\ Len(path.action_log_stds) = PathLen(path)

EpisodeLen(episode) == Len(Get(episode, "states"))
EpisodeSteps(episode) ==
    [i \in 1..EpisodeLen(episode) |->
        Step(Get(episode, "states")[i], Get(episode, "actions")[i],
             Get(episode, "rewards")[i], Get(episode, "action_means")[i],
             Get(episode, "action_log_stds")[i])]

RECURSIVE BatchStepCount(_)
BatchStepCount(batch) ==
    IF batch = <<>> THEN 0 ELSE PathLen(Head(batch)) + BatchStepCount(Tail(batch))

\* The flags of the add_observation calls made so far.
Terminals == [i \in 1..Len(fed) |-> fed[i].terminal]
NoTerminalFed == \A i \in 1..Len(fed) : ~fed[i].terminal

\* This step is an add_observation call / one with the given terminal flag.
IsAddObservation == last_call' = "add_observation" /\ Len(fed') = Len(fed) + 1
Terminal == Last(fed').terminal
\* The step the call records: its state and reward arguments with the values
\* updater.get_action returned last.
FedStep ==
    Step(Last(fed').state, updater_result.action, Last(fed').reward,
         updater_result.outputs.action_means, updater_result.outputs.action_log_stds)
\* The path a finalize in this call must produce: the steps of the episode
\* buffer before the call, then the step of the call.
FinalizedPath(path, terminated) ==
    /\ WellFormedPath(path)
    /\ PathSteps(path) = Append(EpisodeSteps(current_episode), FedStep)
    /\ path.terminated = terminated

(***************************************************************************)
(* C1.  From a fresh agent with batch_size = N, N add_observation calls     *)
(* that all have terminal = False trigger exactly one updater.update call,  *)
(* on the N-th call and on no earlier one; after the N-th call the batch    *)
(* buffer and the episode buffer are empty and batch_steps is 0.            *)
(***************************************************************************)
C1_OneUpdateAfterBatchSizeSteps ==
    (NoTerminalFed /\ Len(fed) <= batch_size) =>
        /\ Len(fed) < batch_size => updates = <<>>
        /\ Len(fed) = batch_size =>
              /\ Len(updates) = 1
              /\ current_batch = <<>>
              /\ current_episode = EmptyEpisode
              /\ batch_steps = 0

C1_Witness ==
    /\ batch_size = MaxBatch
    /\ NoTerminalFed
    /\ Len(fed) = batch_size
    /\ Len(updates) = 1
    /\ PathLen(updates[1][1]) = batch_size

(***************************************************************************)
(* C2.  An add_observation call with terminal = True that leaves the step   *)
(* counter below batch_size appends exactly one path to the batch buffer,   *)
(* with terminated = True and holding exactly the steps of the episode      *)
(* buffer; it empties the episode buffer, does not call updater.update and  *)
(* does not reset the step counter.                                         *)
(***************************************************************************)
C2_TerminalBelowThreshold ==
    [][(IsAddObservation /\ Terminal /\ batch_steps + 1 < batch_size) =>
          /\ Len(current_batch') = Len(current_batch) + 1
          /\ SubSeq(current_batch', 1, Len(current_batch)) = current_batch
          /\ FinalizedPath(Last(current_batch'), TRUE)
          /\ PathLen(Last(current_batch')) = EpisodeLen(current_episode) + 1
          /\ current_episode' = EmptyEpisode
          /\ updates' = updates
          /\ batch_steps' = batch_steps + 1
          /\ raised' = "none"]_vars

C2_Witness ==
    /\ last_call = "add_observation"
    /\ Last(fed).terminal
    /\ 0 < batch_steps /\ batch_steps < batch_size
    /\ Len(current_batch) = 1
    /\ PathLen(Last(current_batch)) = 2
    /\ Last(current_batch).terminated
    /\ current_episode = EmptyEpisode
    /\ updates = <<>>

(***************************************************************************)
(* C3.  When terminal = True and the step counter reaches batch_size on     *)
(* the same call, the episode is finalized once: one path with terminated   *)
(* = True, which the batch handed to updater.update holds once, as its      *)
(* last path; the threshold branch produces no second path.                 *)
(***************************************************************************)
C3_TerminalAtThresholdFinalizedOnce ==
    [][(IsAddObservation /\ Terminal /\ batch_steps + 1 = batch_size) =>
          /\ Len(updates') = Len(updates) + 1
          /\ Len(Last(updates')) = Len(current_batch) + 1
          /\ SubSeq(Last(updates'), 1, Len(current_batch)) = current_batch
          /\ FinalizedPath(Last(Last(updates')), TRUE)
          /\ raised' = "none"]_vars

C3_Witness ==
    /\ last_call = "add_observation"
    /\ Last(fed).terminal
    /\ batch_size = MaxBatch
    /\ Len(fed) = batch_size
    /\ Len(updates) = 1
    /\ Len(updates[1]) = 2
    /\ updates[1][2].terminated

(***************************************************************************)
(* C4.  A batch handed to updater.update is the batch buffer's paths, in    *)
(* order, followed by the path finalized in the call; the buffer only ever  *)
(* grows by the finalized paths until then.  The steps of the batch's paths *)
(* number batch_size; every path but the last has terminated = True and the *)
(* last has terminated = False exactly when the call had terminal = False.  *)
(* After the update both buffers are empty and batch_steps is 0.            *)
(***************************************************************************)
C4_BatchHandedToUpdate ==
    [][IsAddObservation =>
          IF updates' # updates
          THEN /\ updates' = Append(updates, Last(updates'))
               /\ Len(Last(updates')) = Len(current_batch) + 1
               /\ SubSeq(Last(updates'), 1, Len(current_batch)) = current_batch
               /\ FinalizedPath(Last(Last(updates')), Terminal)
               /\ BatchStepCount(Last(updates')) = batch_size
               /\ \A i \in 1..(Len(Last(updates')) - 1) : Last(updates')[i].terminated
               /\ Last(Last(updates')).terminated = Terminal
               /\ current_batch' = <<>>
               /\ current_episode' = EmptyEpisode
               /\ batch_steps' = 0
          ELSE /\ Len(current_batch') >= Len(current_batch)
               /\ SubSeq(current_batch', 1, Len(current_batch)) = current_batch
               /\ Len(current_batch') > Len(current_batch) =>
                     /\ Len(current_batch') = Len(current_batch) + 1
                     /\ FinalizedPath(Last(current_batch'), TRUE)]_vars

C4_Witness ==
    /\ last_call = "add_observation"
    /\ ~Last(fed).terminal
    /\ Len(updates) = 2
    /\ Len(updates[2]) = 2
    /\ updates[2][1].terminated
    /\ ~updates[2][2].terminated
    /\ batch_steps = 0

(***************************************************************************)
(* C5.  With batch_size = 3, a fresh agent fed three add_observation calls  *)
(* with terminal flags (False, False, True).                                *)
(***************************************************************************)
C5_Case == batch_size = 3 /\ Terminals = <<FALSE, FALSE, TRUE>>

\* C5 as stated: one finalized path with terminated = True, no update call,
\* and the batch buffer holds that 1 path.
C5_AsStated_NoUpdate ==
    C5_Case =>
        /\ updates = <<>>
        /\ Len(current_batch) = 1
        /\ current_batch[1].terminated

\* C5 as the code has it: the third call reaches the threshold too, so the one
\* finalized path (terminated = True, 3 steps) is handed to updater.update in
\* one call, and the batch buffer is left empty with batch_steps 0.
C5_OnePathHandedToUpdate ==
    C5_Case =>
        /\ Len(updates) = 1
        /\ Len(updates[1]) = 1
        /\ updates[1][1].terminated
        /\ PathLen(updates[1][1]) = 3
        /\ current_batch = <<>>
        /\ current_episode = EmptyEpisode
        /\ batch_steps = 0

C5_Witness ==
    /\ C5_Case
    /\ last_call = "add_observation"
    /\ Len(updates) = 1

(***************************************************************************)
(* C6.  The action, action mean and action log-stddev every add_observation *)
(* call appends are the ones the most recent get_action call cached, which  *)
(* are the raw values the updater returned: whatever the call's `action`    *)
(* argument, however many get_action calls came before it.                  *)
(***************************************************************************)
\* The most recently recorded step, wherever a finalize has moved it.
LastRecordedStep ==
    IF EpisodeLen(current_episode) > 0 THEN Last(EpisodeSteps(current_episode))
    ELSE IF current_batch # <<>> THEN Last(PathSteps(Last(current_batch)))
    ELSE Last(PathSteps(Last(Last(updates))))

C6_RecordsCachedAction ==
    [][IsAddObservation =>
          /\ LastRecordedStep'.action = updater_result.action
          /\ LastRecordedStep'.action_mean = updater_result.outputs.action_means
          /\ LastRecordedStep'.action_log_std = updater_result.outputs.action_log_stds
          /\ LastRecordedStep'.state = Last(fed').state
          /\ last_action = updater_result.action
          /\ last_action_means = updater_result.outputs.action_means
          /\ last_action_log_stds = updater_result.outputs.action_log_stds]_vars

\* Two add_observation calls after one get_action, recorded with its values.
C6_Witness ==
    /\ last_call = "add_observation"
    /\ EpisodeLen(current_episode) = 2
    /\ Get(current_episode, "actions")[1] = updater_result.action
    /\ Get(current_episode, "actions")[2] = updater_result.action
    /\ Get(current_episode, "action_means")[2] = updater_result.outputs.action_means

(***************************************************************************)
(* C7.  get_action returns the index of a maximal component of the          *)
(* updater's action when continuous = False and the updater's action itself *)
(* when continuous = True; either way it caches the updater's raw action.   *)
(***************************************************************************)
C7_GetActionResult ==
    last_call = "get_action" =>
        /\ last_action = updater_result.action
        /\ continuous =>
              /\ ret.type = "ndarray"
              /\ ret.value = updater_result.action
        /\ ~continuous =>
              /\ ret.type = "int"
              /\ ret.value \in 0..(Len(updater_result.action) - 1)
              /\ \A j \in 1..Len(updater_result.action) :
                     updater_result.action[j] <= updater_result.action[ret.value + 1]

C7_Witness ==
    /\ last_call = "get_action"
    /\ ~continuous
    /\ ret.type = "int"
    /\ ret.value = 1
    /\ last_action = <<0, 1>>

(***************************************************************************)
(* C8.  Construction on an input shape I of rank 2 or 3 and an action shape *)
(* A (of a float action) succeeds exactly when I[:-1] = A[:-1], with output *)
(* size A[-1], or I[:-1] = A, with output size 0; otherwise it raises the   *)
(* value error on 'input_spec.shape' with the value I and the hint 'not     *)
(* flattened and incompatible with action shape'.  On an input shape of     *)
(* rank 1 it never raises this error.                                       *)
(***************************************************************************)
IncompatibleError ==
    /\ gaussian.status = "TensorforceError"
    /\ gaussian.argument = "input_spec.shape"
    /\ gaussian.value = input_spec.shape
    /\ gaussian.hint = "not flattened and incompatible with action shape"

SamePrefix(s, t, n) == \A i \in 1..n : s[i] = t[i]

C8_ShapeCompatibility ==
    (gaussian # None /\ action_spec.type = "float") =>
        LET I == input_spec.shape
            A == action_spec.shape
            ByComponent == Len(A) = Len(I) /\ SamePrefix(I, A, Len(I) - 1)
            ByShape == Len(A) = Len(I) - 1 /\ SamePrefix(I, A, Len(A))
        IN  /\ Len(I) \in {2, 3} =>
                  /\ ByComponent => gaussian.status = "ok" /\ gaussian.size = A[Len(A)]
                  /\ ByShape => gaussian.status = "ok" /\ gaussian.size = 0
                  /\ ~(ByComponent \/ ByShape) => IncompatibleError
            /\ Len(I) = 1 => gaussian.status = "ok"

C8_Witness ==
    /\ gaussian # None
    /\ action_spec = [type |-> "float", shape |-> <<3>>]
    /\ input_spec = [shape |-> <<4, 5>>]
    /\ IncompatibleError

(***************************************************************************)
(* C9.  Construction on an input shape of rank 0 or of rank above 3 raises  *)
(* the value error on 'input_spec.shape' with the offending shape and the   *)
(* hint 'invalid rank', also when the shape is compatible with the action   *)
(* shape: the rank is checked first.                                        *)
(***************************************************************************)
C9_InvalidRank ==
    (gaussian # None /\ action_spec.type = "float"
        /\ (Len(input_spec.shape) = 0 \/ Len(input_spec.shape) > 3)) =>
        /\ gaussian.status = "TensorforceError"
        /\ gaussian.argument = "input_spec.shape"
        /\ gaussian.value = input_spec.shape
        /\ gaussian.hint = "invalid rank"

\* A rank-4 input shape whose leading dimensions are the action shape.
C9_Witness ==
    /\ gaussian # None
    /\ action_spec.type = "float"
    /\ Len(input_spec.shape) = 4
    /\ Len(action_spec.shape) = 3
    /\ SamePrefix(input_spec.shape, action_spec.shape, 3)
    /\ gaussian.status = "TensorforceError"
    /\ gaussian.hint = "invalid rank"

(***************************************************************************)
(* C10.  Whatever the log-stddev head returns, every log_stddev parametrize *)
(* returns lies in [ln(eps), -ln(eps)] and is the head's value clamped to   *)
(* that range, every stddev is exp of that clamped log_stddev, and the mean *)
(* is the head's value, unclamped.                                          *)
(***************************************************************************)
C10_ClampedLogStddev ==
    parameters # None =>
        /\ Len(parameters.log_stddev.data) = Len(head_out.log_stddev.data)
        /\ Len(parameters.stddev.data) = Len(head_out.log_stddev.data)
        /\ \A i \in 1..Len(head_out.log_stddev.data) :
              LET raw == head_out.log_stddev.data[i]
                  clamped == parameters.log_stddev.data[i]
              IN  /\ -EpsilonDigits <= clamped /\ clamped <= EpsilonDigits
                  /\ raw < -EpsilonDigits => clamped = -EpsilonDigits
                  /\ raw > EpsilonDigits => clamped = EpsilonDigits
                  /\ (-EpsilonDigits <= raw /\ raw <= EpsilonDigits) => clamped = raw
                  /\ parameters.stddev.data[i] = exp(clamped)
        /\ parameters.mean.data = head_out.mean.data

\* One log-stddev below the range, one above it, and a mean outside it.
C10_Witness ==
    /\ parameters # None
    /\ Len(head_out.log_stddev.data) = 2
    /\ head_out.log_stddev.data[1] < -EpsilonDigits
    /\ head_out.log_stddev.data[2] > EpsilonDigits
    /\ parameters.stddev.data = <<[num |-> 1, den |-> 1000000], [num |-> 1000000, den |-> 1]>>
    /\ parameters.mean.data[1] = MaxRaw

(***************************************************************************)
(* Reading a sample call: element i of its arguments and of its result.     *)
(***************************************************************************)
IsSampleCall == gaussian_call # None /\ gaussian_call.method = "sample"
SampleElements == 1..Len(gaussian_call.result.data)
SampleMean(i) == FromInt(gaussian_call.parameters.mean.data[i])
\* mean + stddev * temperature * noise, before any clipping
SampleUnclipped(i) ==
    Add(SampleMean(i),
        Mul(gaussian_call.parameters.stddev.data[i],
            FromInt(gaussian_call.temperature * gaussian_call.normal_distribution.data[i])))
BelowMin(x) == action_spec.min_value # None /\ ~LessEq(action_spec.min_value, x)
AboveMax(x) == action_spec.max_value # None /\ ~LessEq(x, action_spec.max_value)
\* y is x clipped to the declared bounds
ClippedFrom(y, x) ==
    /\ BelowMin(x) => y = action_spec.min_value
    /\ AboveMax(x) => y = action_spec.max_value
    /\ (~BelowMin(x) /\ ~AboveMax(x)) => y = x

(***************************************************************************)
(* C11.  Every element of a sampled action lies within the declared bounds, *)
(* min <= action <= max, whatever the mean, stddev, temperature and noise;  *)
(* it is the noisy value mean + stddev * temperature * noise clipped, so    *)
(* the clip comes after the noise, and an undeclared bound is not enforced. *)
(***************************************************************************)
C11_SampleWithinBounds ==
    IsSampleCall =>
        \A i \in SampleElements :
            /\ action_spec.min_value # None =>
                   LessEq(action_spec.min_value, gaussian_call.result.data[i])
            /\ action_spec.max_value # None =>
                   LessEq(gaussian_call.result.data[i], action_spec.max_value)
            /\ ClippedFrom(gaussian_call.result.data[i], SampleUnclipped(i))

\* A mean inside [-1, 1] whose noise carries the action above the maximum.
C11_Witness ==
    /\ IsSampleCall
    /\ action_spec.min_value = FromInt(-1)
    /\ action_spec.max_value = FromInt(1)
    /\ gaussian_call.parameters.mean.data[1] = 0
    /\ AboveMax(SampleUnclipped(1))
    /\ gaussian_call.result.data[1] = FromInt(1)

(***************************************************************************)
(* C12.  With temperature = 0, sample returns the mean clipped to the       *)
(* declared bounds, the mean itself when none is declared, for every stddev *)
(* and every noise draw.                                                    *)
(***************************************************************************)
C12_ZeroTemperatureIsMean ==
    (IsSampleCall /\ gaussian_call.temperature = 0) =>
        \A i \in SampleElements :
            /\ ClippedFrom(gaussian_call.result.data[i], SampleMean(i))
            /\ (action_spec.min_value = None /\ action_spec.max_value = None) =>
                   gaussian_call.result.data[i] = SampleMean(i)

\* The largest stddev and a non-zero draw, with no bound declared.
C12_Witness ==
    /\ IsSampleCall
    /\ gaussian_call.temperature = 0
    /\ gaussian_call.normal_distribution.data[1] = MaxNoise
    /\ gaussian_call.parameters.log_stddev.data[1] = -log_epsilon
    /\ action_spec.min_value = None
    /\ action_spec.max_value = None
    /\ gaussian_call.result.data[1] = FromInt(MaxMean)

(***************************************************************************)
(* C13.  kl_divergence(P, P) is 0, within a tolerance of 1/1000, for every  *)
(* valid parameter set P: every mean, every log_stddev of the clamp range   *)
(* with stddev = exp(log_stddev), those with stddev^2 below eps included.   *)
(***************************************************************************)
IsKLCall == gaussian_call # None /\ gaussian_call.method = "kl_divergence"
Tolerance == Rational(1, 1000)
NearZero(v) ==
    /\ v.ln10 = 0
    /\ LessEq(Neg(Tolerance), v.rational)
    /\ LessEq(v.rational, Tolerance)

C13_KLOfEqualParametersIsZero ==
    (IsKLCall /\ gaussian_call.parameters1 = gaussian_call.parameters2) =>
        \A i \in 1..Len(gaussian_call.result.data) : NearZero(gaussian_call.result.data[i])

\* What the code returns instead: 0 while stddev^2 >= eps, and
\* (stddev^2 / eps - 1) / 2, which is below -0.49, once stddev^2 < eps.
C13_KLOfEqualParametersAsCoded ==
    (IsKLCall /\ gaussian_call.parameters1 = gaussian_call.parameters2) =>
        \A i \in 1..Len(gaussian_call.result.data) :
            LET sq == square(gaussian_call.parameters1.stddev.data[i])
                eps == exp(-EpsilonDigits)
            IN  /\ LessEq(eps, sq) => gaussian_call.result.data[i] = LogPlus(0, FromInt(0))
                /\ ~LessEq(eps, sq) =>
                       /\ gaussian_call.result.data[i].ln10 = 0
                       /\ gaussian_call.result.data[i].rational =
                              Mul(Rational(1, 2), Sub(Div(sq, eps), FromInt(1)))
                       /\ LessEq(gaussian_call.result.data[i].rational, Rational(-49, 100))

(***************************************************************************)
(* C14.  After n add_observation calls on a fresh agent with batch_size = N *)
(* updater.update has been called exactly n \div N times: a call makes one  *)
(* update when it is call N, 2N, 3N, ... and none otherwise, whatever the   *)
(* terminal flags were, and no other operation calls update.  In a run that *)
(* goes on the updates keep coming: a run of MaxObs calls reaches           *)
(* MaxObs \div N updates.                                                   *)
(***************************************************************************)
UpdateCountIsQuotient == Len(updates) = Len(fed) \div batch_size
UpdateOnMultiplesOnly ==
    /\ IsAddObservation =>
          IF Len(fed') % batch_size = 0
          THEN Len(updates') = Len(updates) + 1 /\ SubSeq(updates', 1, Len(updates)) = updates
          ELSE updates' = updates
    /\ ~IsAddObservation => updates' = updates
\* The updates keep coming as long as the calls do: every run reaches the
\* MaxObs \div N updates its MaxObs calls allow.
AnotherUpdateFollows == <>(Len(updates) = MaxObs \div batch_size)

C14_UpdateEveryBatchSizeCalls ==
    /\ []UpdateCountIsQuotient
    /\ [][UpdateOnMultiplesOnly]_vars
    /\ AnotherUpdateFollows

\* Two updates after five calls with batch_size = 2, the first call terminal.
C14_Witness ==
    /\ batch_size = 2
    /\ Len(fed) = 5
    /\ fed[1].terminal
    /\ Len(updates) = 2

(***************************************************************************)
(* C15.  No step is lost, duplicated or reordered: the steps of the paths   *)
(* of all batches handed to update, in order, then those of the paths of    *)
(* the batch buffer, then those of the episode buffer, are the (state,      *)
(* cached action, reward, cached mean, cached log-stddev) of the            *)
(* add_observation calls, in call order.  Every batch handed to update      *)
(* holds batch_size steps; a path ends at call i exactly when call i was    *)
(* terminal or i is a multiple of batch_size, and is terminated exactly     *)
(* when call i was terminal: an episode that straddles a batch boundary is  *)
(* a terminated = False path in the earlier batch and the rest in the next. *)
(***************************************************************************)
RECURSIVE Flatten(_)
Flatten(seqs) == IF seqs = <<>> THEN <<>> ELSE Head(seqs) \o Flatten(Tail(seqs))
AllPaths == Flatten(updates) \o current_batch
RecordedSteps ==
    Flatten([j \in 1..Len(AllPaths) |-> PathSteps(AllPaths[j])])
        \o EpisodeSteps(current_episode)
FedSteps ==
    [i \in 1..Len(fed) |->
        Step(fed[i].state, fed[i].last_action, fed[i].reward,
             fed[i].last_action_means, fed[i].last_action_log_stds)]
\* The call whose step is the last one of path j.
PathEnd(j) == BatchStepCount(SubSeq(AllPaths, 1, j))

C15_NoStepLostOrReordered ==
    /\ RecordedSteps = FedSteps
    /\ \A k \in 1..Len(updates) : BatchStepCount(updates[k]) = batch_size
    /\ \A j \in 1..Len(AllPaths) :
          /\ WellFormedPath(AllPaths[j])
          /\ AllPaths[j].terminated = fed[PathEnd(j)].terminal
    /\ {PathEnd(j) : j \in 1..Len(AllPaths)} =
          {i \in 1..Len(fed) : fed[i].terminal \/ i % batch_size = 0}

\* An episode of three steps with batch_size = 2: its first two steps left
\* with the first update, unterminated; its third closed it in the next batch.
C15_Witness ==
    /\ batch_size = 2
    /\ Len(fed) = 3
    /\ Terminals = <<FALSE, FALSE, TRUE>>
    /\ Len(updates) = 1
    /\ Len(updates[1]) = 1
    /\ ~updates[1][1].terminated
    /\ Len(current_batch) = 1
    /\ current_batch[1].terminated
    /\ EpisodeLen(current_episode) = 0

(***************************************************************************)
(* C16.  Every path in the batch buffer or in a batch handed to update      *)
(* holds at least one step, and get_path never ran on an empty episode      *)
(* buffer (np.concatenate raises ValueError on it): not in the terminal     *)
(* branch, and not in the threshold branch of a call that was terminal.     *)
(***************************************************************************)
C16_NoEmptyPath ==
    /\ raised = "none"
    /\ \A j \in 1..Len(AllPaths) : PathLen(AllPaths[j]) >= 1
    /\ (last_call = "add_observation" /\ Last(fed).terminal
            /\ Len(fed) % batch_size = 0) =>
           /\ Len(Last(updates)) >= 1
           /\ PathEnd(Len(Flatten(updates))) = Len(fed)
           /\ Last(Last(updates)).terminated

\* A terminal call at the threshold, after an earlier episode: the batch
\* handed to update ends with the path that call closed.
C16_Witness ==
    /\ last_call = "add_observation"
    /\ batch_size = 2
    /\ Terminals = <<TRUE, TRUE>>
    /\ Len(updates) = 1
    /\ Len(updates[1]) = 2
    /\ PathLen(updates[1][2]) = 1

(***************************************************************************)
(* C17.  Between calls batch_steps is the number of steps in the paths of   *)
(* the batch buffer plus the number of steps in the episode buffer, and the *)
(* episode buffer's states, actions, rewards, action_means and              *)
(* action_log_stds have the same length.                                    *)
(***************************************************************************)
EpisodeKeys == {"states", "actions", "rewards", "action_means", "action_log_stds"}

C17_BatchStepsCountsBufferedSteps ==
    /\ batch_steps = BatchStepCount(current_batch) + EpisodeLen(current_episode)
    /\ \A key \in EpisodeKeys : Len(Get(current_episode, key)) = EpisodeLen(current_episode)

\* Steps in both buffers: a closed path and an episode in progress.
C17_Witness ==
    /\ Len(current_batch) = 1
    /\ PathLen(current_batch[1]) = 1
    /\ EpisodeLen(current_episode) = 1
    /\ batch_steps = 2

(***************************************************************************)
(* C18.  For batch_size >= 1, between calls 0 <= batch_steps < batch_size:  *)
(* the counter never reaches or passes the threshold, and the two buffers   *)
(* together hold fewer than batch_size steps.                               *)
(***************************************************************************)
C18_BatchStepsBelowBatchSize ==
    batch_size >= 1 =>
        /\ 0 <= batch_steps
        /\ batch_steps < batch_size
        /\ BatchStepCount(current_batch) + EpisodeLen(current_episode) < batch_size

\* One step short of the threshold again, after an update.
C18_Witness ==
    /\ batch_size = MaxBatch
    /\ batch_size >= 2
    /\ Len(updates) = 1
    /\ batch_steps = batch_size - 1

(***************************************************************************)
(* C19.  A get_action call changes the cached last action, mean and         *)
(* log-stddev, to what updater.get_action returned, and nothing else of the *)
(* agent: the episode buffer, the batch buffer, batch_steps, batch_size and *)
(* the continuous flag stay as they were and update is not called, however  *)
(* many get_action calls follow one another.                                *)
(***************************************************************************)
IsGetAction == last_call' = "get_action" /\ fed' = fed
GetActionFrame ==
    IsGetAction =>
        /\ last_action' = updater_result'.action
        /\ last_action_means' = updater_result'.outputs.action_means
        /\ last_action_log_stds' = updater_result'.outputs.action_log_stds
        /\ current_episode' = current_episode
        /\ current_batch' = current_batch
        /\ batch_steps' = batch_steps
        /\ updates' = updates
        /\ batch_size' = batch_size
        /\ continuous' = continuous

C19_GetActionChangesOnlyTheCache == [][GetActionFrame]_vars

\* A get_action call that replaced the cached action while both buffers
\* held steps and an update had been made.
C19_Witness ==
    /\ last_call = "get_action"
    /\ Len(updates) = 1
    /\ Len(current_batch) = 1
    /\ EpisodeLen(current_episode) = 1
    /\ last_action # Last(fed).last_action

====
